---- MODULE Spec2Model ----
(***************************************************************************)
(* Model of pam360_sync.py: main() rotates the passwords of TARGET_USERS,  *)
(* synchronises them with the PAM360 REST API and then applies them to the *)
(* local accounts.  The script is one sequential process; every action     *)
(* below is one step of main() around one external interaction (a remote   *)
(* call through api_request, or one run of chpasswd).  The answers of the  *)
(* server and of chpasswd are inputs, drawn with \E.                        *)
(*                                                                         *)
(* A JSON answer is modelled by the fields main() reads from it.  An       *)
(* identifier the code only tests for truthiness is either a non-empty     *)
(* string or None, which stands for every falsy value (key absent, null,   *)
(* "", 0).  PAM_URL is taken to be an absolute http(s) URL, as its default *)
(* is, so that every api_request reaches urlopen.                          *)
(***************************************************************************)
EXTENDS Integers, Sequences, FiniteSets, TLC

VARIABLES pc, platform, user_passwords, resources, resource_id, accounts,
          result, outcome, u, calls, log, exit_status

vars == <<pc, platform, user_passwords, resources, resource_id, accounts,
          result, outcome, u, calls, log, exit_status>>

\* ---------------------------------------------------------------- bounds
MaxRes == 2
MaxAcc == 1

\* ------------------------------------------------------- configuration
TARGET_USERS == <<"root", "admin">>
SHARE_USER_ID == "1"
system_name == "web01"

None == "None"
NA == "-"

Platforms == {"Linux", "Darwin"}
Passwords == {"pwA", "pwB"}
ResourceNames == {"web01", "WEB01"}
ResourceIds == {None, "42"}
AccountNames == {"root", "admin"}
AccountIds == {None, "7"}
Statuses == {"Success", "Failed", None}
ChpasswdOutcomes == {"rc0", "rc1", "raise"}

SeqsUpTo(S, n) == UNION {[1..k -> S] : k \in 0..n}

ResourceLists == SeqsUpTo([name : ResourceNames, id : ResourceIds], MaxRes)
AccountLists == SeqsUpTo([name : AccountNames, id : AccountIds], MaxAcc)

\* ------------------------------------------------------------ api_request
\* A decoded answer: operation.result.status, operation.result.message and
\* the parts of operation.Details that main() reads.
Body(st, res, acc, rid) ==
  [status |-> st, message |-> "server", resources |-> res, accounts |-> acc,
   resourceid |-> rid]

FailedResult ==
  [status |-> "Failed", message |-> "str(e)", resources |-> <<>>,
   accounts |-> <<>>, resourceid |-> None]

NoResult == Body(None, <<>>, <<>>, None)

\* What urlopen does with one request: exc is the exception it raises
\* ("none", "HTTPError", or "other" for URLError, ssl.SSLError, timeout ...),
\* json tells whether the bytes read decode as JSON, body is the decoded value.
Outcomes(bodies) ==
  [exc : {"none", "HTTPError"}, json : {TRUE}, body : bodies]
    \cup [exc : {"none", "HTTPError"}, json : {FALSE}, body : {NoResult}]
    \cup [exc : {"other"}, json : {FALSE}, body : {NoResult}]

\* variant: the exception is not caught, the caller gets no result object
api_request_uncaught(o) == o.body

api_request(o) ==
  IF o.exc = "none"
    THEN IF o.json THEN o.body ELSE FailedResult
    ELSE IF o.exc = "HTTPError"
      THEN IF o.json THEN o.body ELSE FailedResult
      ELSE FailedResult

\* ------------------------------------------------------------- helpers
Truthy(x) == x # None

Call(op, rid, aid, user, pw) ==
  [op |-> op, rid |-> rid, aid |-> aid, user |-> user, pw |-> pw]

Line(level, msg, user) == [level |-> level, msg |-> msg, user |-> user]

Min(S) == CHOOSE x \in S : \A y \in S : x <= y

\* for r in resources: if r.get("RESOURCE NAME") == system_name: ...; break
FindResourceId(rs, name) ==
  LET M == {i \in DOMAIN rs : rs[i].name = name}
  IN IF M = {} THEN None ELSE rs[Min(M)].id

\* for acc in accounts: if acc.get("ACCOUNT NAME") == user: ...; break
FindAccountId(as, user) ==
  LET M == {i \in DOMAIN as : as[i].name = user}
  IN IF M = {} THEN None ELSE as[Min(M)].id

\* result.get("operation", {}).get("result", {}).get("status", "Unknown")
StatusOf(r) == IF r.status = None THEN "Unknown" ELSE r.status

\* if status == "Success": log_info(...) else: log_warn(...)
\* variant: every outcome is reported at info level
StatusLine_info(status, okmsg, failmsg, user) == Line("info", okmsg, user)

StatusLine(status, okmsg, failmsg, user) ==
  IF status = "Success" THEN Line("info", okmsg, user)
                        ELSE Line("warn", failmsg, user)

\* if not resource_id: log_error(...); sys.exit(1)
\* variant: the check of the resolved ID is left out
MissingId_unchecked(rid) == FALSE

MissingId(rid) == ~Truthy(rid)

\* first_user = TARGET_USERS[0]
\* variant: the last user is taken instead of the first
first_user_last == TARGET_USERS[Len(TARGET_USERS)]

first_user == TARGET_USERS[1]

\* for user in TARGET_USERS[1:] : the position of the first user added
\* variants: the loop covers every user / no user
FirstRemaining_all == Len(TARGET_USERS) - 1
FirstRemaining_none == Len(TARGET_USERS) + 1

FirstRemaining == 2

\* platform.system() == "Darwin"
\* variant: the platform check is left out
IsDarwin_never(p) == FALSE

IsDarwin(p) == p = "Darwin"

\* ------------------------------------------------------------------ Init
Init ==
  /\ pc = "generate"
  /\ platform \in Platforms
  /\ user_passwords = <<>>
  /\ resources = <<>>
  /\ resource_id = None
  /\ accounts = <<>>
  /\ result = NoResult
  /\ outcome = [exc |-> "none", json |-> TRUE, body |-> NoResult]
  /\ u = 1
  /\ calls = <<>>
  /\ log = <<Line("info", "system", NA), Line("info", "platform", NA),
             Line("info", "generating", NA)>>
  /\ exit_status = -1

\* ------------------------------------------------------------ the steps
\* user_passwords[user] = generate_password(), one user per step
GeneratePassword ==
  /\ pc = "generate"
  /\ \E p \in Passwords :
       user_passwords' = Append(user_passwords, p)
  /\ log' = log \o <<Line("info", "generated", TARGET_USERS[u])>>
         \o (IF u = Len(TARGET_USERS)
               THEN <<Line("info", "checking", NA)>> ELSE <<>>)
  /\ IF u = Len(TARGET_USERS)
       THEN pc' = "list" /\ u' = 1
       ELSE pc' = "generate" /\ u' = u + 1
  /\ UNCHANGED <<platform, resources, resource_id, accounts, result, outcome,
                 calls, exit_status>>

\* variant: every user gets the first user's password
Password_first(user) == user_passwords[1]

\* user_passwords[user]
Password(user) ==
  user_passwords[CHOOSE i \in DOMAIN TARGET_USERS : TARGET_USERS[i] = user]

\* GET /restapi/json/v1/resources, the lookup by name and the branch
ListResources ==
  /\ pc = "list"
  /\ \E o \in Outcomes({Body(st, rs, <<>>, None) :
                          st \in Statuses, rs \in ResourceLists}) :
       LET r == api_request(o)
           rid == FindResourceId(r.resources, system_name)
       IN /\ outcome' = o
          /\ result' = r
          /\ resources' = r.resources
          /\ resource_id' = rid
          /\ calls' = Append(calls, Call("GET_resources", NA, NA, NA, NA))
          /\ IF Truthy(rid)
               THEN /\ pc' = "fetch_accounts"
                    /\ log' = Append(log, Line("info", "resource_found", NA))
               ELSE /\ pc' = "create_resource"
                    /\ log' = Append(log, Line("info", "resource_not_found", NA))
  /\ UNCHANGED <<platform, user_passwords, accounts, u, exit_status>>

\* GET /restapi/json/v1/resources/{resource_id}/accounts
FetchAccounts ==
  /\ pc = "fetch_accounts"
  /\ \E o \in Outcomes({Body(st, <<>>, as, None) :
                          st \in Statuses, as \in AccountLists}) :
       LET r == api_request(o)
       IN /\ outcome' = o
          /\ result' = r
          /\ accounts' = r.accounts
  /\ calls' = Append(calls, Call("GET_accounts", resource_id, NA, NA, NA))
  /\ pc' = "accounts_loop"
  /\ u' = 1
  /\ UNCHANGED <<platform, user_passwords, resources, resource_id, log,
                 exit_status>>

WriteOutcomes == Outcomes({Body(st, <<>>, <<>>, None) : st \in Statuses})

\* one iteration of "for user in TARGET_USERS" in branch A
SyncAccount ==
  /\ pc = "accounts_loop"
  /\ LET user == TARGET_USERS[u]
         password == Password(user)
         account_id == FindAccountId(accounts, user)
     IN \E o \in WriteOutcomes :
          LET r == api_request(o)
              status == StatusOf(r)
          IN /\ outcome' = o
             /\ result' = r
             /\ IF Truthy(account_id)
                  THEN /\ calls' = Append(calls,
                            Call("PUT_password", resource_id, account_id, user, password))
                       /\ log' = log \o
                            <<Line("info", "updating", user),
                              StatusLine(status, "password_updated", "update_result", user)>>
                  ELSE /\ calls' = Append(calls,
                            Call("POST_account", resource_id, NA, user, password))
                       /\ log' = log \o
                            <<Line("info", "account_not_found", user),
                              StatusLine(status, "account_created", "create_result", user)>>
  /\ IF u = Len(TARGET_USERS)
       THEN pc' = "share" /\ u' = 1
       ELSE pc' = "accounts_loop" /\ u' = u + 1
  /\ UNCHANGED <<platform, user_passwords, resources, resource_id, accounts,
                 exit_status>>

\* POST /restapi/json/v1/resources with the first target user
CreateResource ==
  /\ pc = "create_resource"
  /\ LET first_pass == Password(first_user)
     IN \E o \in WriteOutcomes :
          /\ outcome' = o
          /\ result' = api_request(o)
          /\ calls' = Append(calls,
               Call("POST_resource", NA, NA, first_user, first_pass))
  /\ log' = Append(log, Line("info", "resource_creation", NA))
  /\ pc' = "resolve"
  /\ UNCHANGED <<platform, user_passwords, resources, resource_id, accounts, u,
                 exit_status>>

\* GET /restapi/json/v1/resources/resourcename/{system_name}; sys.exit(1)
ResolveResourceId ==
  /\ pc = "resolve"
  /\ \E o \in Outcomes({Body(st, <<>>, <<>>, rid) :
                          st \in Statuses, rid \in ResourceIds}) :
       LET r == api_request(o)
       IN /\ outcome' = o
          /\ result' = r
          /\ resource_id' = r.resourceid
          /\ IF MissingId(r.resourceid)
               THEN /\ log' = Append(log, Line("error", "failed_resource_id", NA))
                    /\ pc' = "exited"
                    /\ exit_status' = 1
                    /\ u' = u
               ELSE /\ log' = Append(log, Line("info", "new_resource_id", NA))
                    /\ exit_status' = exit_status
                    /\ IF FirstRemaining <= Len(TARGET_USERS)
                         THEN pc' = "add_loop" /\ u' = FirstRemaining
                         ELSE pc' = "share" /\ u' = 1
  /\ calls' = Append(calls, Call("GET_resourcename", NA, NA, NA, NA))
  /\ UNCHANGED <<platform, user_passwords, resources, accounts>>

\* one iteration of "for user in TARGET_USERS[1:]" in branch B
AddAccount ==
  /\ pc = "add_loop"
  /\ LET user == TARGET_USERS[u]
         password == Password(user)
     IN \E o \in WriteOutcomes :
          LET r == api_request(o)
              status == StatusOf(r)
          IN /\ outcome' = o
             /\ result' = r
             /\ calls' = Append(calls,
                  Call("POST_account", resource_id, NA, user, password))
             /\ log' = log \o
                  <<Line("info", "adding", user),
                    StatusLine(status, "account_created", "create_result", user)>>
  /\ IF u = Len(TARGET_USERS)
       THEN pc' = "share" /\ u' = 1
       ELSE pc' = "add_loop" /\ u' = u + 1
  /\ UNCHANGED <<platform, user_passwords, resources, resource_id, accounts,
                 exit_status>>

\* PUT /restapi/json/v1/resources/{resource_id}/share
ShareResource ==
  /\ pc = "share"
  /\ IF Truthy(resource_id)
       THEN \E o \in WriteOutcomes :
              /\ outcome' = o
              /\ result' = api_request(o)
              /\ calls' = Append(calls,
                   Call("PUT_share", resource_id, NA, SHARE_USER_ID, NA))
              /\ log' = log \o <<Line("info", "sharing", NA),
                                 Line("info", "share_result", NA)>>
       ELSE UNCHANGED <<outcome, result, calls, log>>
  /\ pc' = "local"
  /\ UNCHANGED <<platform, user_passwords, resources, resource_id, accounts, u,
                 exit_status>>

\* "if platform.system() == 'Darwin': ... else: ..." of step 7
StartLocal ==
  /\ pc = "local"
  /\ IF IsDarwin(platform)
       THEN /\ log' = Append(log, Line("warn", "skipping_local", NA))
            /\ pc' = "complete"
       ELSE /\ log' = Append(log, Line("info", "updating_local", NA))
            /\ pc' = "local_loop"
  /\ u' = 1
  /\ UNCHANGED <<platform, user_passwords, resources, resource_id, accounts,
                 result, outcome, calls, exit_status>>

\* change_local_password(user, user_passwords[user]) for one user
ChangeLocalPassword ==
  /\ pc = "local_loop"
  /\ LET user == TARGET_USERS[u]
         password == Password(user)
     IN IF IsDarwin(platform)
          THEN /\ calls' = calls
               /\ log' = Append(log, Line("warn", "local_not_changed", user))
          ELSE \E c \in ChpasswdOutcomes :
                 /\ calls' = Append(calls, Call("chpasswd", NA, NA, user, password))
                 /\ log' = log \o
                      (IF c = "raise"
                         THEN <<Line("error", "chpasswd_failed", user)>> ELSE <<>>)
                      \o <<IF c = "rc0"
                             THEN Line("info", "local_changed", user)
                             ELSE Line("warn", "local_not_changed", user)>>
  /\ IF u = Len(TARGET_USERS)
       THEN pc' = "complete" /\ u' = 1
       ELSE pc' = "local_loop" /\ u' = u + 1
  /\ UNCHANGED <<platform, user_passwords, resources, resource_id, accounts,
                 result, outcome, exit_status>>

\* log_info("Script execution complete.") and the return of main()
Complete ==
  /\ pc = "complete"
  /\ log' = Append(log, Line("info", "complete", NA))
  /\ pc' = "done"
  /\ exit_status' = 0
  /\ UNCHANGED <<platform, user_passwords, resources, resource_id, accounts,
                 result, outcome, u, calls>>

Next ==
  \/ GeneratePassword
  \/ ListResources
  \/ FetchAccounts
  \/ SyncAccount
  \/ CreateResource
  \/ ResolveResourceId
  \/ AddAccount
  \/ ShareResource
  \/ StartLocal
  \/ ChangeLocalPassword
  \/ Complete

Spec == Init /\ [][Next]_vars

TypeOK ==
  /\ pc \in {"generate", "list", "fetch_accounts", "accounts_loop",
             "create_resource", "resolve", "add_loop", "share", "local",
             "local_loop", "complete", "done", "exited"}
  /\ platform \in Platforms
  /\ exit_status \in {-1, 0, 1}
  /\ u \in 1..Len(TARGET_USERS)
\* ------------------------------------------------- observation helpers
Terminal == {"done", "exited"}

Count(op) == Cardinality({i \in DOMAIN calls : calls[i].op = op})

Ops(cs) == [i \in DOMAIN cs |-> cs[i].op]

IsRemote(c) == c.op # "chpasswd"

\* the list call has been answered
Listed == pc \notin {"generate", "list"}

\* the answer to the list call holds a resource named like the host
NameListed == \E i \in DOMAIN resources : resources[i].name = system_name

\* the account list fetched holds an account named user
AccountListed(user) == \E i \in DOMAIN accounts : accounts[i].name = user

UserIndex(user) == CHOOSE i \in DOMAIN TARGET_USERS : TARGET_USERS[i] = user

LastCall == calls[Len(calls)]

LastLine == log[Len(log)]

\* this step issued a remote call
RemoteStep == Len(calls') = Len(calls) + 1 /\ IsRemote(calls'[Len(calls')])

\* this step wrote a warning
Warned == \E i \in (Len(log) + 1)..Len(log') : log'[i].level = "warn"

\* the local password changes of step 7, for every target user in list order
LocalChanges ==
  [i \in DOMAIN TARGET_USERS |->
     Call("chpasswd", NA, NA, TARGET_USERS[i], user_passwords[i])]

\* step 7 as the platform permits it
LocalChangesPermitted == IF platform = "Darwin" THEN <<>> ELSE LocalChanges

\* ------------------------------------------------------------------- C1
\* C1: whenever the answer to the resource-list call holds a resource named
\* exactly like the host, whatever its ID and the other entries, the run
\* takes the "exists" branch (the account list is fetched) and never issues
\* the resource-creation POST.
C1_ExistingResourceNotRecreated ==
  (Listed /\ NameListed) =>
     /\ Count("POST_resource") = 0
     /\ pc \notin {"create_resource", "resolve", "add_loop", "exited"}
     /\ (pc # "fetch_accounts" => Count("GET_accounts") = 1)

\* ------------------------------------------------------------------- C2
\* C2: when no listed resource name equals the hostname, exactly one
\* resource-creation call is made, carrying the first target user's name and
\* generated password, followed by exactly one resolve-by-name call; if the
\* resolve yields no resource ID the process exits with code 1 and no
\* account-creation, share or local password-change call is made.
C2_AbsentBranch ==
  (Listed /\ ~NameListed) =>
     /\ pc \notin {"fetch_accounts", "accounts_loop"}
     /\ Count("GET_accounts") = 0 /\ Count("PUT_password") = 0
     /\ IF pc = "create_resource"
          THEN Len(calls) = 1
          ELSE /\ Count("POST_resource") = 1
               /\ calls[2] = Call("POST_resource", NA, NA, TARGET_USERS[1],
                                  user_passwords[1])
     /\ IF pc \in {"create_resource", "resolve"}
          THEN Count("GET_resourcename") = 0
          ELSE /\ Count("GET_resourcename") = 1
               /\ calls[3].op = "GET_resourcename"
               /\ (resource_id = None) <=> (pc = "exited")
     /\ pc = "exited" =>
          /\ exit_status = 1
          /\ Len(calls) = 3
          /\ Count("POST_account") = 0
          /\ Count("PUT_share") = 0
          /\ Count("chpasswd") = 0

C2_Witness ==
  /\ pc = "exited"
  /\ exit_status = 1
  /\ Len(resources) = 2
  /\ ~NameListed
  /\ Ops(calls) = <<"GET_resources", "POST_resource", "GET_resourcename">>

\* ------------------------------------------------------------------- C3
ResolveFailed == Count("GET_resourcename") = 1 /\ resource_id = None

C3_ExitStatus ==
  /\ pc \notin Terminal => exit_status = -1 /\ (ResolveFailed => pc = "resolve")
  /\ pc = "exited" =>
       /\ exit_status = 1
       /\ Count("POST_resource") = 1
       /\ ResolveFailed
       /\ LastCall.op = "GET_resourcename"
       /\ LastLine = Line("error", "failed_resource_id", NA)
  /\ pc = "done" =>
       /\ exit_status = 0
       /\ ~ResolveFailed
       /\ LastLine = Line("info", "complete", NA)

\* an upper bound on the number of steps main() still has to take
StepsLeft ==
  LET N == Len(TARGET_USERS)
      K == CASE pc = "generate" -> 9
             [] pc = "list" -> 8
             [] pc \in {"fetch_accounts", "create_resource"} -> 7
             [] pc \in {"accounts_loop", "resolve"} -> 6
             [] pc = "add_loop" -> 5
             [] pc = "share" -> 4
             [] pc = "local" -> 3
             [] pc = "local_loop" -> 2
             [] pc = "complete" -> 1
             [] OTHER -> 0
  IN K * (N + 1) + (N - u)

AccountOps == {"PUT_password", "POST_account"}

C5_LocalAfterRemote ==
  \A i \in DOMAIN calls :
    calls[i].op = "chpasswd" =>
      /\ \E j \in 1..(i - 1) :
           /\ calls[j].op \in {"PUT_password", "POST_account", "POST_resource"}
           /\ calls[j].user = calls[i].user
      /\ \E j \in 1..(i - 1) : calls[j].op = "PUT_share"
      /\ \A j \in (i + 1)..Len(calls) : calls[j].op = "chpasswd"

C5_Witness ==
  /\ calls # <<>>
  /\ LastCall.op = "chpasswd"
  /\ LastCall.user = "admin"
  /\ Count("POST_resource") = 1
  /\ \E i \in DOMAIN log : log[i] = Line("warn", "create_result", "admin")

\* ------------------------------------------------------------------- C6
IsChpasswd(c) == c.op = "chpasswd"

ChpasswdUsers ==
  LET L == SelectSeq(calls, IsChpasswd)
  IN [i \in DOMAIN L |-> L[i].user]

\* C6: on Darwin chpasswd is never invoked, whatever branch ran and whatever
\* the remote calls returned; on any other platform that reaches step 7 it is
\* invoked exactly once per target user, in list order, a failure for one
\* user not preventing the invocation for the next.
C6_PlatformGate ==
  /\ platform = "Darwin" => Count("chpasswd") = 0
  /\ platform # "Darwin" =>
       /\ pc \in {"complete", "done"} => ChpasswdUsers = TARGET_USERS
       /\ pc = "local_loop" => ChpasswdUsers = SubSeq(TARGET_USERS, 1, u - 1)
       /\ pc \notin {"complete", "done", "local_loop"} => ChpasswdUsers = <<>>

C6_Witness ==
  /\ pc = "done"
  /\ platform = "Linux"
  /\ ChpasswdUsers = TARGET_USERS
  /\ \E i \in DOMAIN log :
       /\ log[i] = Line("error", "chpasswd_failed", "root")
       /\ \E j \in (i + 1)..Len(log) : log[j] = Line("info", "local_changed", "admin")

\* ------------------------------------------------------------------- C7
\* the remote account call the claim expects for the user at position i
ExpectedAccountCall(i) ==
  LET user == TARGET_USERS[i]
  IN IF AccountListed(user)
       THEN Call("PUT_password", resource_id,
                 accounts[Min({k \in DOMAIN accounts : accounts[k].name = user})].id,
                 user, user_passwords[i])
       ELSE Call("POST_account", resource_id, NA, user, user_passwords[i])

\* C7: in the "exists" branch every target user, in list order, gets exactly
\* one remote account call, a password-reset PUT if the fetched account list
\* holds an account named exactly like the user and an account-creation POST
\* otherwise; then comes exactly one share PUT for the resource found, and
\* only then the local password changes (where the platform permits them).
C7_ExistsBranchCalls ==
  Count("GET_accounts") = 1 =>
    LET n == IF pc = "accounts_loop" THEN u - 1 ELSE Len(TARGET_USERS)
        Expected ==
          <<Call("GET_resources", NA, NA, NA, NA),
            Call("GET_accounts", resource_id, NA, NA, NA)>>
          \o [i \in 1..Len(TARGET_USERS) |-> ExpectedAccountCall(i)]
          \o <<Call("PUT_share", resource_id, NA, SHARE_USER_ID, NA)>>
          \o LocalChangesPermitted
    IN /\ Len(calls) >= 2 + n
       /\ Len(calls) <= Len(Expected)
       /\ calls = SubSeq(Expected, 1, Len(calls))
       /\ pc = "done" => calls = Expected

\* ------------------------------------------------------------------- C8
\* the calls of the "absent" branch up to the share call
AbsentRemoteCalls ==
  <<Call("GET_resources", NA, NA, NA, NA),
    Call("POST_resource", NA, NA, TARGET_USERS[1], user_passwords[1]),
    Call("GET_resourcename", NA, NA, NA, NA)>>
  \o [i \in 1..(Len(TARGET_USERS) - 1) |->
        Call("POST_account", resource_id, NA, TARGET_USERS[i + 1],
             user_passwords[i + 1])]
  \o <<Call("PUT_share", resource_id, NA, SHARE_USER_ID, NA)>>

AbsentResolved ==
  /\ Count("POST_resource") = 1
  /\ pc \in {"add_loop", "share", "local", "local_loop", "complete", "done"}

\* C8 as stated: in the "absent" branch with a resolved resource ID the run
\* issues, after the list call, the resource POST with the first user's name
\* and password, the resolve GET, one account POST per remaining user, one
\* share PUT, and then the local password changes for all target users.
C8_AbsentBranchCalls ==
  (AbsentResolved /\ pc = "done") => calls = AbsentRemoteCalls \o LocalChanges

\* C8 as amended: the same sequence of remote calls, followed by the local
\* password changes for all target users on every platform but Darwin, and
\* by no local change on Darwin.
C8_AbsentBranchCallsPermitted ==
  AbsentResolved =>
    LET Expected == AbsentRemoteCalls \o LocalChangesPermitted
    IN /\ Len(calls) <= Len(Expected)
       /\ calls = SubSeq(Expected, 1, Len(calls))
       /\ pc = "done" => calls = Expected

C8_Witness ==
  /\ pc = "done"
  /\ platform = "Linux"
  /\ resources = <<>>
  /\ Ops(calls) = <<"GET_resources", "POST_resource", "GET_resourcename",
                    "POST_account", "PUT_share", "chpasswd", "chpasswd">>

\* ------------------------------------------------------------------- C9
AccountStep ==
  /\ Len(calls') = Len(calls) + 1
  /\ calls'[Len(calls')].op \in AccountOps

\* C9: a password-reset or account-creation call whose result is not
\* "Success" yields a warning and raises nothing: the run goes on to the next
\* user's account call, then to the share call and the local step, exactly as
\* after "Success", without repeating the call and without undoing a call
\* already made.
C9_FailureContinues ==
  /\ [][AccountStep =>
          LET c == calls'[Len(calls')]
              N == Len(TARGET_USERS)
          IN /\ (result'.status # "Success") <=> log'[Len(log')].level = "warn"
             /\ SubSeq(calls', 1, Len(calls)) = calls
             /\ \A j \in DOMAIN calls :
                  calls[j].op \in AccountOps => calls[j].user # c.user
             /\ exit_status' = exit_status
             /\ pc' = (IF u = N THEN "share" ELSE pc)
             /\ u' = (IF u = N THEN 1 ELSE u + 1)]_vars
  /\ [](pc \in {"local", "local_loop", "complete", "done"} =>
          /\ Count("PUT_share") = 1
          /\ Count("PUT_password") + Count("POST_account")
               = Len(TARGET_USERS) - Count("POST_resource"))

C9_Witness ==
  /\ calls # <<>>
  /\ LastCall.op = "PUT_password"
  /\ LastCall.user = "root"
  /\ outcome.exc = "other"
  /\ result.status = "Failed"
  /\ LastLine = Line("warn", "update_result", "root")
  /\ pc = "accounts_loop"
  /\ u = 2

\* ------------------------------------------------------------------ C10
\* C10: each target user has exactly one generated password, fixed before
\* the first remote call and never changed; every call that carries a
\* password for a user (reset, account creation, resource creation, local
\* change) carries that user's password.
C10_OnePasswordPerUser ==
  /\ [](calls # <<>> =>
          /\ Len(user_passwords) = Len(TARGET_USERS)
          /\ \A i \in DOMAIN calls :
               calls[i].pw # NA =>
                 calls[i].pw = user_passwords[UserIndex(calls[i].user)])
  /\ [][pc # "generate" => user_passwords' = user_passwords]_vars

C10_Witness ==
  /\ pc = "done"
  /\ user_passwords[1] # user_passwords[2]
  /\ \E i, j, k \in DOMAIN calls :
       /\ calls[i] = Call("PUT_password", "42", "7", "root", user_passwords[1])
       /\ calls[j] = Call("POST_account", "42", NA, "admin", user_passwords[2])
       /\ calls[k] = Call("chpasswd", NA, NA, "admin", user_passwords[2])
====
